---- MODULE Spec2Model ----
(***************************************************************************)
(* The chat transcript controller of chatbot-pd-fe (the App component with *)
(* local persistence, src/unnamed/part_000 lines 261-521): its React state *)
(* (messages, input, loading), the localStorage blob, the suspended        *)
(* continuations of handleSendMessage and the requests sent to the remote  *)
(* query endpoint.  A text is a sequence of characters.  The earlier App   *)
(* with a simulated reply (src/chatbotfe/src/App.tsx) is modelled next to  *)
(* it in its own variables (sim...).                                       *)
(***************************************************************************)
EXTENDS Integers, Sequences, FiniteSets, TLC

\* ------------------------------------------------------------------ bounds

\* Accepted submissions in one behaviour (caps the request log).
MaxRequests == 2

\* Calls of getOrCreateCid in one behaviour (caps the log of returned ids).
MaxCalls == 3

\* Accepted submissions of the simulated-reply App in one behaviour.
MaxSubmits == 3

\* ------------------------------------------------------------ input sets

\* Values the draft input can take: empty, whitespace-only, plain, padded.
Drafts == { <<>>, <<" ">>, <<"a">>, <<" ", "a">> }

\* Readings of the wall clock (milliseconds within the hour).
ClockValues == { 0, 61500 }

\* Values of the `response` field of a reply object: empty or a reply text.
ReplyTexts == { <<>>, <<"h", "i">> }

\* HTTP statuses of a delivered response: one 2xx, one non-2xx.
Statuses == { 200, 500 }

\* Values of Math.random() in [0, 1), each as the base-36 digits of its
\* fraction: no digit is the value 0.
RandomFractions == { <<>>, <<"k">>, <<"z">>, <<"q", "7">> }

\* ---------------------------------------------------------- fixed texts

GreetingText == << "Hello! Ask me about one of our Brathay properties." >>

LoadingText == << "..." >>

FallbackText == << "Sorry, no response received." >>

ErrorText == << "Error: Unable to reach the chatbot service." >>

Whitespace == { " " }

\* The greeting of the simulated-reply App.
SimGreetingText == << "Hello! How can I help you today?" >>

\* ------------------------------------------------------- pure functions

\* A trim that trims nothing.
TrimNothing(s) == s

\* String.prototype.trim: drop leading, then trailing, whitespace.
RECURSIVE TrimStart(_)
TrimStart(s) ==
    IF s # <<>> /\ Head(s) \in Whitespace THEN TrimStart(Tail(s)) ELSE s

RECURSIVE TrimEnd(_)
TrimEnd(s) ==
    IF s # <<>> /\ s[Len(s)] \in Whitespace
    THEN TrimEnd(SubSeq(s, 1, Len(s) - 1))
    ELSE s

Trim(s) == TrimEnd(TrimStart(s))

\* A Message (interface Message).
Message(id, text, sender, timestamp) ==
    [id |-> id, text |-> text, sender |-> sender, timestamp |-> timestamp]

\* A filter that keeps only the bot messages.
FilterKeepBot(msgs) == SelectSeq(msgs, LAMBDA m : m.sender = "bot")

\* A filter that removes nothing.
FilterNothing(msgs) == msgs

\* prev.filter(msg => msg.sender !== 'loading')
RECURSIVE FilterLoading(_)
FilterLoading(msgs) ==
    IF msgs = <<>> THEN <<>>
    ELSE IF Head(msgs).sender # "loading"
         THEN <<Head(msgs)>> \o FilterLoading(Tail(msgs))
         ELSE FilterLoading(Tail(msgs))

\* A serialisation of the time value that drops the milliseconds.
ToISOStringNoMillis(t) ==
    [mm |-> t \div 60000, ss |-> (t % 60000) \div 1000, sss |-> 0]

\* Date.prototype.toISOString (used by JSON.stringify): the time value split
\* into its minute, second and millisecond fields.
ToISOString(t) ==
    [mm |-> t \div 60000, ss |-> (t % 60000) \div 1000, sss |-> t % 1000]

\* new Date(isoString): the time value of the fields.
ParseDate(iso) == iso.mm * 60000 + iso.ss * 1000 + iso.sss

\* JSON.stringify(messages): every Message with its timestamp as ISO string.
Stringify(msgs) ==
    [kind |-> "json",
     items |-> [i \in DOMAIN msgs |->
                  [id |-> msgs[i].id, text |-> msgs[i].text,
                   sender |-> msgs[i].sender,
                   timestamp |-> ToISOString(msgs[i].timestamp)]]]

\* JSON.parse(raw).map(m => ({ ...m, timestamp: new Date(m.timestamp) }))
ParseStored(raw) ==
    [i \in DOMAIN raw.items |->
       [id |-> raw.items[i].id, text |-> raw.items[i].text,
        sender |-> raw.items[i].sender,
        timestamp |-> ParseDate(raw.items[i].timestamp)]]

\* The three values the transcript key can hold that are no saved transcript.
NoItem == [kind |-> "absent", items |-> <<>>]

CorruptItem == [kind |-> "corrupt", items |-> <<>>]

\* A restore without the parsed.length guard.
RestoresAnyJson(raw) == raw.kind = "json"

\* Does the restore effect reach setMessages(parsed)?  (raw is truthy, it
\* parses, and parsed.length is not 0.)
Restores(raw) == raw.kind = "json" /\ Len(raw.items) # 0

\* The restore effect: the transcript after it, given the one before.
Restore(raw, msgs) == IF Restores(raw) THEN ParseStored(raw) ELSE msgs

\* A persist that writes only while the key holds no saved transcript.
SetItemOnlyWhenUnsaved(store, msgs, ok) ==
    IF ok /\ store.kind # "json" THEN Stringify(msgs) ELSE store

\* localStorage.setItem inside try/catch: a failed write leaves the blob.
SetItem(store, msgs, ok) == IF ok THEN Stringify(msgs) ELSE store

\* A persist effect without its try/catch: the write fault escapes the effect
\* and the component tree is unmounted, transcript and all.
AfterPersistUnswallowed(msgs, ok) == IF ok THEN msgs ELSE <<>>

\* The persist effect's try { ... } catch {}: the transcript in memory after
\* the effect has run, whether or not the write went through.
AfterPersist(msgs, ok) == msgs

\* The default single-greeting transcript of useState.
DefaultMessages(t) == << Message(1, GreetingText, "bot", t) >>

\* useState initial value of the simulated-reply App.
SimDefaultMessages(t) == << Message(1, SimGreetingText, "bot", t) >>

\* `I received your message: "${input}"`
Quote(text) == << "I received your message: \"" >> \o text \o << "\"" >>

\* The values a timer callback closes over: the draft and the transcript
\* length of the render whose handler armed it.
Closure(text, length) == [input |-> text, length |-> length]

\* newBotMessage of a timer callback, built when the timer fires.
NewBotMessage(closure, t) == Message(closure.length + 2, Quote(closure.input), "bot", t)

\* ------------------------------------------------------- remote endpoint

\* The body of the commented-out extension, with the conversation id.
RequestBodyWithMemory(userInput) ==
    [question |-> userInput, conversation_id |-> <<"c">>]

\* A body that carries the trimmed text.
RequestBodyTrimmed(userInput) == [question |-> Trim(userInput)]

\* body: JSON.stringify({ question: userInput })
RequestBody(userInput) == [question |-> userInput]

\* What the transport can hand back: a rejected fetch, or a response with a
\* status and a body that is unparseable, JSON null, or a JSON object with
\* or without a `response` field.
NetworkFailure == [ok |-> FALSE, status |-> 0, body |-> "none",
                   hasResponse |-> FALSE, response |-> <<>>]

Response(status, body, has, text) ==
    [ok |-> TRUE, status |-> status, body |-> body,
     hasResponse |-> has, response |-> text]

Outcomes ==
    {NetworkFailure}
    \cup {Response(s, "unparseable", FALSE, <<>>) : s \in Statuses}
    \cup {Response(s, "null", FALSE, <<>>) : s \in Statuses}
    \cup {Response(s, "object", FALSE, <<>>) : s \in Statuses}
    \cup {Response(s, "object", TRUE, t) : s \in Statuses, t \in ReplyTexts}

\* A try block that faults only when fetch itself rejects.
ThrowsOnlyOnRejectedFetch(o) == ~o.ok

\* Does the try block throw (fetch rejects, response.json() rejects, or
\* data.response is read off null)?
Throws(o) == ~o.ok \/ o.body = "unparseable" \/ o.body = "null"

\* The reply without its fallback.
BotReplyNoFallback(o) == o.response

\* data.response || 'Sorry, no response received.'
BotReply(o) ==
    IF o.hasResponse /\ o.response # <<>> THEN o.response ELSE FallbackText

\* The text of the settled bot message: try block or catch block.
SettledText(o) == IF Throws(o) THEN ErrorText ELSE BotReply(o)

\* A flag cleared at the end of the try block only, not in a finally.
FlagClearedInTryOnly(o) == Throws(o)

\* finally { setLoading(false) }: the flag after the continuation has run.
FlagAfterSettle(o) == FALSE

\* An event dispatched to the page: its type and, for a settled request, the
\* transport outcome its continuation saw.
NoOutcome == [ok |-> FALSE, status |-> 0, body |-> "n/a",
              hasResponse |-> FALSE, response |-> <<>>]

Event(type, outcome) == [type |-> type, outcome |-> outcome]

\* ---------------------------------------------------- conversation id

\* Number.prototype.toString(36) of a value in [0, 1).
ToString36(fraction) ==
    IF fraction = <<>> THEN <<"0">> ELSE <<"0", ".">> \o fraction

\* String.prototype.slice(2)
Slice2(s) == SubSeq(s, 3, Len(s))

\* localStorage.getItem(key): null when the key is absent.
NoCid == [present |-> FALSE, value |-> <<>>]

StoredCid(value) == [present |-> TRUE, value |-> value]

\* !cid : null and the empty string are falsy.
Falsy(item) == ~item.present \/ item.value = <<>>

\* ------------------------------------------------------------- the state

VARIABLES
    messages,   \* useState<Message[]>
    input,      \* useState('') : the draft
    loading,    \* useState(false) : the in-flight flag
    storage,    \* localStorage['chat.messages']
    inflight,   \* suspended continuations of handleSendMessage (awaiting fetch)
    requests,   \* bodies of the POSTs issued so far
    now,        \* the wall clock read by new Date()
    mounted,    \* have the mount effects of this page load run?
    event,      \* the last event dispatched
    writes,     \* outcomes of the setItem calls made while handling `event`
    cidStore,   \* localStorage['chat.conversation_id']
    cidCalls,   \* the values getOrCreateCid has returned
    simMessages,  \* simulated-reply App: the messages state of the last render
    simInput,     \* simulated-reply App: the draft
    simTimers,    \* pending setTimeout callbacks, in creation order
    simUpdates,   \* updaters queued by timer callbacks, not yet rendered
    simSubmitted  \* the drafts handleSendMessage has accepted so far

appVars == <<messages, input, loading, storage, inflight, requests, now, mounted, event, writes>>

cidVars == <<cidStore, cidCalls>>

simVars == <<simMessages, simInput, simTimers, simUpdates, simSubmitted>>

vars == <<appVars, cidVars, simVars>>

\* A text field that is never disabled.
TextFieldNeverDisabled == FALSE

\* disabled={loading} of the TextField
TextFieldDisabled == loading

\* disabled={input.trim() === '' || loading} of the IconButton
SendDisabled == Trim(input) = <<>> \/ loading

\* The simulated-reply App after construction: the greeting, an empty draft,
\* no timer armed.
SimInit ==
    /\ simMessages = SimDefaultMessages(now)
    /\ simInput = <<>>
    /\ simTimers = <<>>
    /\ simUpdates = <<>>
    /\ simSubmitted = <<>>

AppInit ==
    /\ now \in ClockValues
    /\ messages = DefaultMessages(now)
    /\ input = <<>>
    /\ loading = FALSE
    /\ storage \in {NoItem, CorruptItem, Stringify(<<>>)}
    /\ inflight = <<>>
    /\ requests = <<>>
    /\ mounted = FALSE
    /\ event = Event("construct", NoOutcome)
    /\ writes = <<>>

\* The active code path never calls getOrCreateCid: the identifier key is
\* never written.
Init ==
    /\ AppInit
    /\ cidStore = NoCid
    /\ cidCalls = <<>>
    /\ SimInit

\* The two mount effects in order: restore reads the blob and may replace the
\* transcript; persist writes the first render's transcript; the re-render
\* that a restore causes runs persist again on the restored transcript.
MountEffects ==
    /\ ~mounted
    /\ \E ok1 \in BOOLEAN, ok2 \in (IF Restores(storage) THEN BOOLEAN ELSE {TRUE}) :
         LET restored == Restore(storage, messages)
             first    == SetItem(storage, messages, ok1)
         IN IF Restores(storage)
            THEN /\ messages' = AfterPersist(AfterPersist(restored, ok1), ok2)
                 /\ storage' = SetItem(first, restored, ok2)
                 /\ writes' = <<ok1, ok2>>
            ELSE /\ messages' = AfterPersist(restored, ok1)
                 /\ storage' = first
                 /\ writes' = <<ok1>>
    /\ mounted' = TRUE
    /\ event' = Event("mount", NoOutcome)
    /\ UNCHANGED <<input, loading, inflight, requests, now, cidVars, simVars>>

\* onChange={(e) => setInput(e.target.value)}; a disabled field takes no input.
EditDraft ==
    /\ mounted
    /\ ~TextFieldDisabled
    /\ \E d \in Drafts : d # input /\ input' = d
    /\ event' = Event("edit", NoOutcome)
    /\ writes' = <<>>
    /\ UNCHANGED <<messages, loading, storage, inflight, requests, now, mounted, cidVars, simVars>>

\* handleSendMessage up to its await: the early return, the two appends, the
\* cleared draft, the flag, the POST; then the persist effect of the re-render.
HandleSendMessage ==
    IF Trim(input) = <<>>
    THEN /\ writes' = <<>>
         /\ UNCHANGED <<messages, input, loading, storage, inflight, requests>>
    ELSE /\ Len(requests) < MaxRequests
         /\ \E ok \in BOOLEAN :
              LET newUserMessage == Message(Len(messages) + 1, input, "user", now)
                  loadingMessage == Message(Len(messages) + 2, LoadingText, "loading", now)
                  userInput == input
                  next == messages \o <<newUserMessage>> \o <<loadingMessage>>
              IN /\ messages' = AfterPersist(next, ok)
                 /\ input' = <<>>
                 /\ loading' = TRUE
                 /\ inflight' = Append(inflight, RequestBody(userInput))
                 /\ requests' = Append(requests, RequestBody(userInput))
                 /\ storage' = SetItem(storage, next, ok)
                 /\ writes' = <<ok>>

\* A click on the send button: a disabled button dispatches nothing.
ClickSend ==
    /\ mounted
    /\ UNCHANGED <<now, mounted, cidVars, simVars>>
    /\ IF SendDisabled
       THEN /\ event' = Event("click:disabled", NoOutcome)
            /\ writes' = <<>>
            /\ UNCHANGED <<messages, input, loading, storage, inflight, requests>>
       ELSE /\ event' = Event("click", NoOutcome)
            /\ HandleSendMessage

\* Enter (without shift) in the text field: handleKeyPress; a disabled field
\* dispatches nothing.
PressEnter ==
    /\ mounted
    /\ UNCHANGED <<now, mounted, cidVars, simVars>>
    /\ IF TextFieldDisabled
       THEN /\ event' = Event("enter:disabled", NoOutcome)
            /\ writes' = <<>>
            /\ UNCHANGED <<messages, input, loading, storage, inflight, requests>>
       ELSE /\ event' = Event("enter", NoOutcome)
            /\ HandleSendMessage

\* The continuation of handleSendMessage once fetch settles: try or catch
\* replaces the placeholder by the bot message, finally clears the flag; then
\* the persist effect of the re-render.
Resolve ==
    /\ \E i \in DOMAIN inflight, o \in Outcomes, ok \in BOOLEAN :
         LET next == FilterLoading(messages)
                       \o << Message(Len(messages) + 1, SettledText(o), "bot", now) >>
         IN /\ messages' = AfterPersist(next, ok)
            /\ inflight' = SubSeq(inflight, 1, i - 1) \o SubSeq(inflight, i + 1, Len(inflight))
            /\ loading' = FlagAfterSettle(o)
            /\ event' = Event("settle", o)
            /\ storage' = SetItem(storage, next, ok)
            /\ writes' = <<ok>>
    /\ UNCHANGED <<input, requests, now, mounted, cidVars, simVars>>

\* The page is torn down and loaded again: the component state is
\* constructed afresh, pending continuations are discarded, the blob stays.
Teardown ==
    /\ mounted
    /\ messages' = DefaultMessages(now)
    /\ input' = <<>>
    /\ loading' = FALSE
    /\ inflight' = <<>>
    /\ mounted' = FALSE
    /\ event' = Event("construct", NoOutcome)
    /\ writes' = <<>>
    /\ UNCHANGED <<storage, requests, now, cidVars, simVars>>

\* Time passes.
Tick ==
    /\ \E t \in ClockValues : t > now /\ now' = t
    /\ UNCHANGED <<messages, input, loading, storage, inflight, requests, mounted, event, writes, cidVars, simVars>>

Next ==
    \/ MountEffects
    \/ EditDraft
    \/ ClickSend
    \/ PressEnter
    \/ Resolve
    \/ Teardown
    \/ Tick

Spec == Init /\ [][Next]_vars

\* getOrCreateCid: the cached id if there is a truthy one, else a fresh token
\* that is cached and returned.
GetOrCreateCid ==
    /\ Len(cidCalls) < MaxCalls
    /\ \E fraction \in RandomFractions :
         LET cid == IF Falsy(cidStore) THEN Slice2(ToString36(fraction))
                    ELSE cidStore.value
         IN /\ cidStore' = IF Falsy(cidStore) THEN StoredCid(cid) ELSE cidStore
            /\ cidCalls' = Append(cidCalls, cid)
    /\ UNCHANGED <<appVars, simVars>>

\* The function on its own, from every state of the identifier key: absent,
\* present and empty, present with a token.
CidInit ==
    /\ AppInit
    /\ cidStore \in {NoCid} \cup {StoredCid(Slice2(ToString36(f))) : f \in RandomFractions}
    /\ cidCalls = <<>>
    /\ SimInit

CidSpec == CidInit /\ [][GetOrCreateCid]_vars

\* Every request the transport holds is eventually settled (resolved or
\* rejected) unless the page is torn down first.
FairSpec == Spec /\ WF_vars(Resolve)

\* ------------------------------------------------- vocabulary of the claims

Count(msgs, sender) == Cardinality({i \in DOMAIN msgs : msgs[i].sender = sender})

Last(msgs) == msgs[Len(msgs)]

Texts(msgs) == {msgs[i].text : i \in DOMAIN msgs}

\* Empty or whitespace-only.
IsBlank(s) == \A i \in DOMAIN s : s[i] = " "

\* This step is an accepted submission: it issues a request.
SubmitStep == requests' # requests

\* This step is the continuation of a request that settled.
SettleStep == mounted /\ mounted' /\ Len(inflight') < Len(inflight)

\* The outcome is a fault of the try block, stated on the transport's answer:
\* no answer, a body that is no JSON, or JSON null (reading a field throws).
Faulty(o) == ~o.ok \/ o.body \in {"unparseable", "null"}

\* ------------------------------------------------------------------ claims

\* C1: every submission accepted while idle adds exactly one user message, and
\* its settlement adds exactly one bot message; no state in between holds
\* more than one loading message.
C1_OneUserOneBotOneLoading ==
    [][ /\ (SubmitStep /\ ~loading) =>
              /\ Count(messages', "user") = Count(messages, "user") + 1
              /\ Count(messages', "bot") = Count(messages, "bot")
        /\ SettleStep =>
              /\ Count(messages', "bot") = Count(messages, "bot") + 1
              /\ Count(messages', "user") = Count(messages, "user")
        /\ Count(messages', "loading") <= 1 ]_vars

\* C2: while a request is in flight no step (a click, an Enter, anything that
\* interleaves with the pending settlement) issues a request or adds a user
\* or loading message.
C2_NoSubmitInFlight ==
    [][ loading =>
          /\ requests' = requests
          /\ Len(inflight') <= Len(inflight)
          /\ Count(messages', "user") <= Count(messages, "user")
          /\ Count(messages', "loading") <= Count(messages, "loading") ]_vars

\* A submission was attempted through the disabled field while one request
\* is outstanding, and nothing was added.
C2_Witness ==
    /\ loading
    /\ event.type \in {"enter:disabled", "click:disabled"}
    /\ Len(inflight) = 1
    /\ Count(messages, "loading") = 1

\* C3: the transcript never holds more than one loading message.
C3_AtMostOneLoading == Count(messages, "loading") <= 1

\* C4: message ids are strictly increasing in transcript order (hence unique).
C4_IdsStrictlyIncreasing ==
    \A i, j \in DOMAIN messages : i < j => messages[i].id < messages[j].id

\* C5: a submission of empty or whitespace-only text changes neither the
\* transcript, the draft, the flag nor the stored transcript, and sends nothing.
C5_BlankSubmitIsNoOp ==
    [][ (event'.type \in {"click", "enter", "click:disabled", "enter:disabled"}
           /\ IsBlank(input))
        => UNCHANGED <<messages, input, loading, storage, inflight, requests>> ]_vars

\* The submit handler has run on a whitespace-only draft and left it.
C5_Witness ==
    /\ event.type = "enter"
    /\ input = <<" ">>
    /\ ~loading
    /\ inflight = <<>>

C7_FaultGivesErrorMessage ==
    [][ (SettleStep /\ Faulty(event'.outcome)) =>
          /\ Count(messages', "loading") = 0
          /\ Count(messages', "bot") = Count(messages, "bot") + 1
          /\ Len(messages') = Len(messages) - Count(messages, "loading") + 1
          /\ Last(messages').sender = "bot"
          /\ Last(messages').text = ErrorText
          /\ Texts(messages') \subseteq Texts(messages) \cup {ErrorText} ]_vars

\* A response whose body is no JSON has settled as the error message.
C7_Witness ==
    /\ event.type = "settle"
    /\ event.outcome.ok
    /\ event.outcome.body = "unparseable"
    /\ Last(messages).text = ErrorText
    /\ Count(messages, "loading") = 0

\* C8: a non-2xx response settles as the fixed error message, whatever its body.
C8_Non2xxGivesErrorMessage ==
    (event.type = "settle" /\ event.outcome.ok /\ event.outcome.status # 200)
    => Last(messages).text = ErrorText

\* C9: the settlement clears the flag on every path, the flag goes down only
\* together with a transcript that ends in the settled bot message and holds
\* no placeholder, and a raised flag always comes down.
C9_FlagAlwaysCleared ==
    /\ [][ /\ SettleStep => ~loading'
           /\ (loading /\ ~loading' /\ mounted') =>
                 /\ SettleStep
                 /\ Last(messages').sender = "bot"
                 /\ Count(messages', "loading") = 0 ]_vars
    /\ (loading ~> ~loading)

\* A faulted request has settled and the flag is down.
C9_Witness ==
    /\ event.type = "settle"
    /\ Faulty(event.outcome)
    /\ ~loading
    /\ Last(messages).text = ErrorText

\* C10: persisting the transcript and restoring it over a fresh default
\* transcript gives back the same messages, field by field.
C10_RoundTrip ==
    LET restored == Restore(SetItem(storage, messages, TRUE), DefaultMessages(now))
    IN /\ Len(restored) = Len(messages)
       /\ \A i \in DOMAIN messages :
            /\ restored[i].id = messages[i].id
            /\ restored[i].text = messages[i].text
            /\ restored[i].sender = messages[i].sender
            /\ restored[i].timestamp = messages[i].timestamp

\* A page load has restored a stored exchange whose timestamps have second
\* and millisecond parts.
C10_Witness ==
    /\ event.type = "mount"
    /\ Len(messages) >= 3
    /\ messages = ParseStored(storage)
    /\ \E i \in DOMAIN messages : messages[i].timestamp % 60000 # 0

\* ----------------------------------------------- more vocabulary of claims

\* The user and bot messages of a transcript, in order.
Settled(msgs) == SelectSeq(msgs, LAMBDA m : m.sender \in {"user", "bot"})

IsPrefix(a, b) == Len(a) <= Len(b) /\ SubSeq(b, 1, Len(a)) = a

\* This step is a click or an Enter on a non-blank draft while idle that
\* changed the transcript: an accepted submission.
AcceptedSubmit ==
    /\ event'.type \in {"click", "enter"}
    /\ ~IsBlank(input)
    /\ ~loading
    /\ messages' # messages

\* This step runs the mount effects of a page load.
MountStep == ~mounted /\ mounted'

\* The key holds a saved transcript with at least one message.
HoldsTranscript(raw) == raw.kind = "json" /\ raw.items # <<>>

\* A setItem call of this step failed / every one of them went through.
SomeWriteFailed == \E i \in DOMAIN writes' : ~writes'[i]

AllWritesOk == writes' # <<>> /\ \A i \in DOMAIN writes' : writes'[i]

\* The synchronous effect of a submission of the draft on the transcript T:
\* T ++ [user(draft), loading], draft empty, flag up.
SubmitEffect ==
    /\ Len(messages') = Len(messages) + 2
    /\ SubSeq(messages', 1, Len(messages)) = messages
    /\ messages'[Len(messages) + 1].sender = "user"
    /\ messages'[Len(messages) + 1].text = input
    /\ messages'[Len(messages) + 2].sender = "loading"
    /\ input' = <<>>
    /\ loading'

\* The effect of a settlement: no placeholder left, a bot message last.
SettleEffect ==
    /\ Len(messages') = Len(Settled(messages)) + 1
    /\ Count(messages', "loading") = 0
    /\ Last(messages').sender = "bot"

\* C11: of two calls of getOrCreateCid in a row, the second returns the token
\* the first returned and leaves the identifier key as it is.
C11_CidIdempotent ==
    [][ (cidCalls # <<>> /\ cidCalls' # cidCalls) =>
          /\ Last(cidCalls') = Last(cidCalls)
          /\ cidStore' = cidStore ]_vars

\* C12 as stated: in every awaiting-reply state the draft can be edited.
C12_EditEnabledInFlight == (mounted /\ loading) => ENABLED EditDraft

\* C12 amended: in no awaiting-reply state can the draft be edited; it stays
\* empty until the flag is down.
C12_DraftFrozenInFlight == loading => (~ENABLED EditDraft /\ input = <<>>)

\* A request is outstanding on a page that has taken a submission by click.
C12_Witness ==
    /\ mounted
    /\ loading
    /\ event.type = "click"
    /\ Len(inflight) = 1

\* C13: an accepted submission adds exactly one request, whose body has
\* `question` (the submitted text) as its only field; no other step adds,
\* drops or changes a request.
C13_OneRequestPerSubmit ==
    [][ /\ AcceptedSubmit =>
              /\ Len(requests') = Len(requests) + 1
              /\ SubSeq(requests', 1, Len(requests)) = requests
              /\ DOMAIN Last(requests') = {"question"}
              /\ Last(requests').question = input
        /\ ~AcceptedSubmit => requests' = requests ]_vars

\* Two submissions have been accepted and two requests issued.
C13_Witness ==
    /\ Len(requests) = 2
    /\ Count(messages, "user") = 2
    /\ loading
    /\ event.type \in {"click", "enter"}

\* C14: within a page load, after its mount effects, every step keeps the
\* user and bot messages it found, in order and in front.
C14_SettledNeverRemoved ==
    [][ (mounted /\ mounted') => IsPrefix(Settled(messages), Settled(messages')) ]_vars

\* A second exchange has settled behind the first.
C14_Witness ==
    /\ event.type = "settle"
    /\ Len(messages) = 5
    /\ Count(messages, "loading") = 0

\* C15: an accepted submission gives T ++ [user(d), loading], an empty draft
\* and a raised flag; a settlement leaves no placeholder and a bot message
\* last; no transcript holds a placeholder in front of a bot message.
C15_SubmitThenReplaceInOrder ==
    /\ [][ /\ AcceptedSubmit => SubmitEffect
           /\ SettleStep => SettleEffect ]_vars
    /\ [](\A i, j \in DOMAIN messages :
            (i < j /\ messages[i].sender = "loading") => messages[j].sender # "bot")

\* The first submission, of a plain draft, is awaiting its reply.
C15_Witness ==
    /\ loading
    /\ input = <<>>
    /\ Len(messages) = 3
    /\ messages[2].sender = "user"
    /\ messages[2].text = <<"a">>
    /\ messages[3].sender = "loading"

\* C16: the mount effects replace the default transcript by a stored
\* non-empty one, message by message, and keep the default greeting when the
\* key is absent, holds an empty list or does not parse; they can always run.
C16_RestoreOrKeepDefault ==
    /\ [][ MountStep =>
             IF HoldsTranscript(storage)
             THEN /\ Len(messages') = Len(storage.items)
                  /\ \A i \in DOMAIN messages' :
                       /\ messages'[i].id = storage.items[i].id
                       /\ messages'[i].text = storage.items[i].text
                       /\ messages'[i].sender = storage.items[i].sender
                       /\ ToISOString(messages'[i].timestamp) = storage.items[i].timestamp
             ELSE /\ messages' = messages
                  /\ Len(messages') = 1
                  /\ messages'[1].id = 1
                  /\ messages'[1].sender = "bot"
                  /\ messages'[1].text = GreetingText ]_vars
    /\ [](~mounted => ENABLED MountEffects)

\* A page has loaded over a key that does not parse and shows the greeting.
C16_Witness ==
    /\ event.type = "mount"
    /\ storage = CorruptItem
    /\ writes = <<FALSE>>
    /\ Len(messages) = 1
    /\ messages[1].text = GreetingText

\* C17: a step whose write fails changes transcript, draft and flag as the
\* same step does when the write goes through, and a pending request can
\* still settle.
C17_WriteFaultSwallowed ==
    /\ [][ SomeWriteFailed =>
             /\ AcceptedSubmit => SubmitEffect
             /\ SettleStep => (SettleEffect /\ ~loading' /\ input' = input)
             /\ MountStep => (/\ Len(messages') >= 1
                              /\ ~loading' /\ input' = input
                              /\ HoldsTranscript(storage) => Len(messages') = Len(storage.items)
                              /\ ~HoldsTranscript(storage) => messages' = messages)
             /\ Len(messages') >= Len(Settled(messages)) ]_vars
    /\ []((mounted /\ inflight # <<>>) => ENABLED Resolve)

\* A request has settled although the write of the settled transcript failed.
C17_Witness ==
    /\ event.type = "settle"
    /\ writes = <<FALSE>>
    /\ ~loading
    /\ Last(messages).sender = "bot"
    /\ storage # Stringify(messages)

\* C18 as stated: the stored user text is the trimmed draft, and the question
\* sent is the stored text.
C18_StoredTextIsTrimmed ==
    [][ AcceptedSubmit =>
          /\ messages'[Len(messages) + 1].text = Trim(input)
          /\ Last(requests').question = messages'[Len(messages) + 1].text ]_vars

\* C18 amended: the stored user text is the draft as typed, and the question
\* sent is the stored text.
C18_StoredTextIsDraft ==
    [][ AcceptedSubmit =>
          /\ Len(messages') >= Len(messages) + 1
          /\ messages'[Len(messages) + 1].sender = "user"
          /\ messages'[Len(messages) + 1].text = input
          /\ Last(requests').question = messages'[Len(messages) + 1].text ]_vars

\* A padded draft has been submitted and is stored and sent with its padding.
C18_Witness ==
    /\ Len(requests) >= 1
    /\ requests[1].question = <<" ", "a">>
    /\ Len(messages) >= 2
    /\ messages[2].sender = "user"
    /\ messages[2].text = <<" ", "a">>

\* C19: when every write of a step goes through, a step that changes the
\* transcript, or mounts the page, leaves the key with the serialization of
\* the transcript in memory; a mount over a stored non-empty transcript T
\* ends with T in memory and T, not the default greeting, in the key.
C19_StorageTracksTranscript ==
    [][ AllWritesOk =>
          /\ ((messages' # messages /\ mounted') \/ MountStep)
                => storage' = Stringify(messages')
          /\ (MountStep /\ HoldsTranscript(storage)) =>
                /\ Stringify(messages') = storage
                /\ storage' = storage ]_vars

\* A page load has restored a stored exchange and written it back.
C19_Witness ==
    /\ event.type = "mount"
    /\ writes = <<TRUE, TRUE>>
    /\ Len(messages) >= 3
    /\ storage = Stringify(messages)
    /\ storage # Stringify(DefaultMessages(now))

\* C20: the flag is up exactly when the transcript holds a loading message.
C20_FlagIffPlaceholder == loading <=> (Count(messages, "loading") >= 1)

\* Every awaited request settles, and the effects of a constructed page run.
MountFairSpec == Spec /\ WF_vars(Resolve) /\ WF_vars(MountEffects)

\* A write of the key failed while the last event was handled.
LastWriteFailed == \E i \in DOMAIN writes : ~writes[i]

\* The stored transcript holds a loading message.
StoredLoading == \E i \in DOMAIN storage.items : storage.items[i].sender = "loading"

\* C21: a loading message in the transcript is eventually gone from it, and a
\* loading message in the stored transcript is eventually gone from the key
\* (or a write of the key has failed), provided every request that is awaited
\* settles and the effects of a constructed page run.
C21_PlaceholderTransient ==
    /\ (Count(messages, "loading") >= 1) ~> (Count(messages, "loading") = 0)
    /\ StoredLoading ~> (~StoredLoading \/ LastWriteFailed)

\* ------------------------------------------ the simulated-reply App (sim)

\* onChange of the TextField, which is never disabled.
SimEditDraft ==
    /\ \E d \in Drafts : d # simInput /\ simInput' = d
    /\ UNCHANGED <<simMessages, simTimers, simUpdates, simSubmitted>>
    /\ UNCHANGED <<appVars, cidVars>>

\* handleSendMessage by click or Enter, with the re-render that ends the
\* event.  `messages` and `input` are those of the last render.  setMessages
\* is given a value, not an updater: rendering it overrides the updaters that
\* timer callbacks queued since that render.
SimHandleSendMessage ==
    /\ Trim(simInput) # <<>>
    /\ Len(simSubmitted) < MaxSubmits
    /\ LET newUserMessage == Message(Len(simMessages) + 1, simInput, "user", now)
       IN /\ simMessages' = simMessages \o <<newUserMessage>>
          /\ simUpdates' = <<>>
          /\ simInput' = <<>>
          /\ simTimers' = Append(simTimers, Closure(simInput, Len(simMessages)))
          /\ simSubmitted' = Append(simSubmitted, simInput)
    /\ UNCHANGED <<appVars, cidVars>>

\* The oldest timer fires (all delays are 1000 ms): its callback queues the
\* updater prev => [...prev, newBotMessage].
SimTimerFires ==
    /\ simTimers # <<>>
    /\ simUpdates' = Append(simUpdates, NewBotMessage(Head(simTimers), now))
    /\ simTimers' = Tail(simTimers)
    /\ UNCHANGED <<simMessages, simInput, simSubmitted>>
    /\ UNCHANGED <<appVars, cidVars>>

\* React renders the updaters queued outside an event handler: at once, or
\* in a later task when updates are batched.
SimRender ==
    /\ simUpdates # <<>>
    /\ simMessages' = simMessages \o simUpdates
    /\ simUpdates' = <<>>
    /\ UNCHANGED <<simInput, simTimers, simSubmitted>>
    /\ UNCHANGED <<appVars, cidVars>>

SimNext == SimEditDraft \/ SimHandleSendMessage \/ SimTimerFires \/ SimRender

SimSpec == Init /\ [][SimNext]_vars

\* The texts of the messages of one sender, in transcript order.
RECURSIVE TextsOf(_, _)
TextsOf(msgs, sender) ==
    IF msgs = <<>> THEN <<>>
    ELSE (IF Head(msgs).sender = sender THEN <<Head(msgs).text>> ELSE <<>>)
         \o TextsOf(Tail(msgs), sender)

\* Every timer has fired and every queued update is on screen.
SimQuiet == simTimers = <<>> /\ simUpdates = <<>>

\* C22: the transcript always holds exactly one user message per accepted
\* submission, in order; and once every timer has fired and rendered, the bot
\* messages after the greeting are exactly one reply per accepted submission,
\* each quoting its own draft, in submission order.
C22_OneUserOneReplyInOrder ==
    /\ TextsOf(simMessages, "user") = simSubmitted
    /\ SimQuiet =>
         TextsOf(Tail(simMessages), "bot")
           = [i \in DOMAIN simSubmitted |-> Quote(simSubmitted[i])]

====
